---- MODULE Spec2Model ----
(***************************************************************************)
(* State-machine model of the FastAPI reference backend of uauth:          *)
(* src/backends/fastapi/{main,auth_utils,models,config}.py.                *)
(*                                                                         *)
(* The persisted state is the two tables of models.py (users and           *)
(* refresh_tokens); access tokens are stateless signed claim sets.  Time   *)
(* is counted in whole minutes.  Spec runs every request handler as one    *)
(* step; SpecConc splits the handlers that read the store and commit       *)
(* later into their separate store accesses, so that requests interleave.  *)
(***************************************************************************)
EXTENDS Integers, FiniteSets, Sequences, TLC

\* ------------------------------------------------------------------ bounds
Emails == {"a@x.com", "b@x.com"}
Passwords == {"pw1", "pw2"}
Names == {"Ann"}
Providers == {"google", "github"}
Workers == {"w1", "w2"}
\* instants the clock can show (minutes since start): the start, the refresh
\* expiry of a token issued at the start, and one minute past it
Instants == {0, 10080, 10081}
MaxUsers == 2
MaxTokens == 3
\* the same caps where requests interleave
MaxConcTokens == 2
ConcPasswords == {"pw1"}
ConcInstants == {0, 10081}

\* --------------------------------------------------------------- constants
access_token_expire_minutes == 60
refresh_token_expire_days == 7
MinutesPerDay == 1440
secret_key == "your-secret-key-change-in-production"

\* ------------------------------------------------------------------- state
VARIABLES
    users,          \* table users: set of rows
    tokens,         \* table refresh_tokens: set of rows
    nextUid,        \* number of the next user id (ids are fresh uuids)
    nextTok,        \* number of the next refresh token string (fresh uuids)
    now,            \* datetime.utcnow(), in minutes
    issued,         \* the token pairs the server has handed out so far, and when
    last,           \* the response of the request that completed last at this instant
    req             \* per worker: the request in flight between two store accesses

vars == <<users, tokens, nextUid, nextTok, now, issued, last, req>>

\* ------------------------------------------------------------- models.py
\* columns of class User (created_at/updated_at are never read by a handler
\* and are left out of the rows)
UserColumns == {"id", "email", "name", "hashed_password"}

\* hasattr(User, attr): the declarative constructor rejects any other keyword
\* (TypeError) and reading any other attribute of a row raises AttributeError
HasColumn(attr) == attr \in UserColumns

NoName == "None"
NoProvider == "None"
NoEmail == "None"
NoHash == [scheme |-> "none", plain |-> "none"]

\* a row of users: it has the columns of the class and no other attribute
UserRow(id, email, name, hashed_password, oauth_provider, oauth_provider_user_id) ==
    LET given == [id |-> id, email |-> email, name |-> name,
                  hashed_password |-> hashed_password,
                  oauth_provider |-> oauth_provider,
                  oauth_provider_user_id |-> oauth_provider_user_id]
    IN [c \in UserColumns |-> given[c]]

\* db.query(User)...first() found nothing
NoUser == UserRow(0, NoEmail, NoName, NoHash, NoProvider, "None")
\* the lookup raised instead of returning
Raised == UserRow(-1, NoEmail, NoName, NoHash, NoProvider, "None")
\* db.query(RefreshToken)...first() found nothing
NoToken == [token |-> 0, user_id |-> 0, expires_at |-> 0]

\* Column(String, unique=True) on users.email: an INSERT of a second row with
\* the same email fails with IntegrityError at commit
UniqueEmail_off(email) == TRUE
UniqueEmail(email) == \A u \in users : u.email # email

\* db.query(User).filter(User.email == email).first()
UserByEmail(email) ==
    IF \E u \in users : u.email = email
    THEN CHOOSE u \in users : u.email = email
    ELSE NoUser

\* db.query(User).filter(User.id == user_id).first()
UserById(user_id) ==
    IF \E u \in users : u.id = user_id
    THEN CHOOSE u \in users : u.id = user_id
    ELSE NoUser

\* db.query(RefreshToken).filter(RefreshToken.token == token).first()
TokenByString(token) ==
    IF \E r \in tokens : r.token = token
    THEN CHOOSE r \in tokens : r.token = token
    ELSE NoToken

\* ----------------------------------------------------------- auth_utils.py
\* pwd_context.hash: a bcrypt hash embeds what verify needs to recognise
\* the plaintext and nothing that gives the plaintext back
hash_password(password) == [scheme |-> "bcrypt", plain |-> password]

\* pwd_context.verify: CryptContext identifies the scheme of the stored hash
\* first and raises UnknownHashError when no configured scheme recognises it
\* (verify_password has no try/except); otherwise the outcome of the comparison
verify_password(plain_password, hashed_password) ==
    IF hashed_password.scheme # "bcrypt" THEN "UnknownHashError"
    ELSE IF hashed_password.plain = plain_password THEN "True"
    ELSE "False"

\* secrets.token_urlsafe(32): a value no client submits
generate_random_password == "random-secret"

create_access_token(user_id) ==
    [sub |-> user_id,
     exp |-> now + access_token_expire_minutes,
     type |-> "access",
     key |-> secret_key]

\* the row create_refresh_token inserts; token_str is a fresh uuid
create_refresh_token_reuse(user_id) ==
    [token |-> CHOOSE t \in 1 .. nextTok :
                  /\ \A r \in tokens : r.token # t
                  /\ \A t2 \in 1 .. (t - 1) : \E r \in tokens : r.token = t2,
     user_id |-> user_id,
     expires_at |-> now + refresh_token_expire_days * MinutesPerDay]
create_refresh_token_short(user_id) ==
    [token |-> nextTok,
     user_id |-> user_id,
     expires_at |-> now + access_token_expire_minutes]
create_refresh_token(user_id) ==
    [token |-> nextTok,
     user_id |-> user_id,
     expires_at |-> now + refresh_token_expire_days * MinutesPerDay]

\* jwt.decode raises a JWTError: the string is not a JWT or is signed with
\* another key (JWSError wrapped), or exp < now (ExpiredSignatureError)
jwt_decode_raises(token) == token.key # secret_key \/ token.exp < now

\* jwt.decode checks the signature and exp (expired when exp < now), then
\* the subject and the type are checked; 0 stands for None, and a negative
\* value for an exception that leaves the function
verify_access_token_uncaught(token) ==
    IF jwt_decode_raises(token) THEN -1
    ELSE IF token.sub = 0 \/ token.type # "access" THEN 0
    ELSE token.sub
verify_access_token_expired_early(token) ==
    IF token.key # secret_key \/ token.exp <= now THEN 0
    ELSE IF token.sub = 0 \/ token.type # "access" THEN 0
    ELSE token.sub
verify_access_token_session(token) ==
    IF jwt_decode_raises(token) THEN 0
    ELSE IF token.sub = 0 \/ token.type # "access" THEN 0
    ELSE IF \A r \in tokens : r.user_id # token.sub THEN 0
    ELSE token.sub
verify_access_token_any_type(token) ==
    IF jwt_decode_raises(token) THEN 0
    ELSE IF token.sub = 0 THEN 0
    ELSE token.sub
verify_access_token(token) ==
    IF jwt_decode_raises(token) THEN 0
    ELSE IF token.sub = 0 \/ token.type # "access" THEN 0
    ELSE token.sub

\* verify_refresh_token, its return value
verify_refresh_token_unfiltered(token) ==
    LET refresh_token == IF tokens = {} THEN NoToken ELSE CHOOSE r \in tokens : TRUE IN
    IF refresh_token = NoToken THEN NoToken
    ELSE IF refresh_token.expires_at < now THEN NoToken
    ELSE refresh_token
verify_refresh_token(token) ==
    LET refresh_token == TokenByString(token) IN
    IF refresh_token = NoToken THEN NoToken
    ELSE IF refresh_token.expires_at < now THEN NoToken
    ELSE refresh_token

\* verify_refresh_token, the table it leaves (the expired row is deleted)
verify_refresh_token_store_sweep(token) ==
    LET refresh_token == TokenByString(token) IN
    IF refresh_token # NoToken /\ refresh_token.expires_at < now
    THEN {r \in tokens : r.expires_at >= now}
    ELSE tokens
verify_refresh_token_store_at_expiry(token) ==
    LET refresh_token == TokenByString(token) IN
    IF refresh_token # NoToken /\ refresh_token.expires_at <= now
    THEN tokens \ {refresh_token}
    ELSE tokens
verify_refresh_token_store(token) ==
    LET refresh_token == TokenByString(token) IN
    IF refresh_token # NoToken /\ refresh_token.expires_at < now
    THEN tokens \ {refresh_token}
    ELSE tokens

\* revoke_all_user_tokens: the table it leaves
revoke_all_user_tokens_one(user_id) ==
    IF \E r \in tokens : r.user_id = user_id
    THEN tokens \ {CHOOSE r \in tokens : r.user_id = user_id}
    ELSE tokens
revoke_all_user_tokens(user_id) == {r \in tokens : r.user_id # user_id}

\* revoke_all_user_tokens: the count it returns, the rows the delete matched
revoke_all_user_tokens_count_total(user_id) == Cardinality(tokens)
revoke_all_user_tokens_count(user_id) ==
    Cardinality({r \in tokens : r.user_id = user_id})

\* authenticate_user: the user, NoUser for None, Raised for the AttributeError
\* of reading an attribute the row does not have and for the exception of
\* verify_password
authenticate_user(email, password) ==
    LET user == UserByEmail(email) IN
    IF user = NoUser THEN NoUser
    ELSE IF ~HasColumn("oauth_provider") THEN Raised
    ELSE IF user.oauth_provider # NoProvider THEN NoUser
    ELSE IF verify_password(password, user.hashed_password) = "UnknownHashError"
         THEN Raised
    ELSE IF verify_password(password, user.hashed_password) = "False" THEN NoUser
    ELSE user

\* ----------------------------------------------------------------- replies
\* a worker with no request between two store accesses
Idle == [pc |-> "idle", email |-> NoEmail, hashed |-> NoHash, name |-> NoName,
         provider |-> NoProvider, user |-> NoUser, row |-> NoToken]

\* the response of a handler: its error code ("OK" for ok = true, "EXCEPTION"
\* for an exception that leaves the handler), the email and the provider of
\* the request, the user the handler resolved, the refresh token presented
\* and the one handed out
Reply(op, code, email, user_id, token, new_token) ==
    [op |-> op, code |-> code, email |-> email, user_id |-> user_id,
     token |-> token, issued |-> new_token, provider |-> NoProvider]

Init ==
    /\ users = {}
    /\ tokens = {}
    /\ nextUid = 1
    /\ nextTok = 1
    /\ now = 0
    /\ issued = {}
    /\ last = Reply("none", "none", NoEmail, 0, 0, 0)
    /\ req = [w \in Workers |-> Idle]

\* a handler returns (or raises) without having written anything
respond(op, code, email, user_id, token) ==
    /\ last' = Reply(op, code, email, user_id, token, 0)
    /\ UNCHANGED <<users, tokens, nextUid, nextTok, now, issued>>

\* create_token_pair on the table `store`: one access token signed, one
\* refresh_tokens row inserted and committed
create_token_pair(store, user_id) ==
    /\ nextTok <= MaxTokens
    /\ issued' = issued \cup {[access_token |-> create_access_token(user_id),
                                 refresh_token |-> create_refresh_token(user_id).token,
                                 at |-> now]}
    /\ tokens' = store \cup {create_refresh_token(user_id)}
    /\ nextTok' = nextTok + 1

\* ------------------------------------------------------------------ main.py
\* sign_up, lines 215-224: the existence check
sign_up_exists_never(email) == FALSE
sign_up_exists(email) == UserByEmail(email) # NoUser

\* sign_up, lines 226-247: insert the user, commit, create the pair
sign_up_commit(email, hashed_pw, name) ==
    IF ~UniqueEmail(email)
    THEN respond("sign_up", "EXCEPTION", email, 0, 0)
    ELSE /\ nextUid <= MaxUsers
         /\ users' = users \cup {UserRow(nextUid, email, name, hashed_pw,
                                          NoProvider, "None")}
         /\ nextUid' = nextUid + 1
         /\ create_token_pair(tokens, nextUid)
         /\ last' = Reply("sign_up", "OK", email, nextUid, 0, nextTok)
         /\ UNCHANGED now

\* POST /auth/sign-up
sign_up(email, password, name) ==
    /\ IF sign_up_exists(email)
       THEN respond("sign_up", "EMAIL_EXISTS", email, 0, 0)
       ELSE sign_up_commit(email, hash_password(password), name)
    /\ UNCHANGED req

\* the outcome of exchange_oauth2_code as sign_in_oauth2 sees it: a raised
\* ValueError (ok = FALSE) or the normalized identity of the provider, whose
\* email is what the provider sent: an address, nothing (None) or ""
ExchangeResults ==
    {[ok |-> FALSE, email |-> NoEmail, name |-> NoName, provider_user_id |-> "None"]}
    \cup [ok : {TRUE}, email : Emails \cup {NoEmail, ""}, name : Names,
          provider_user_id : {"pid-1"}]

\* sign_in_oauth2, lines 99-114: the reply decided before the user lookup
\* (`not user_info.get("email")` holds for None and for "")
oauth2_early_none_only(user_info) ==
    IF ~user_info.ok THEN "OAUTH2_ERROR"
    ELSE IF user_info.email = NoEmail THEN "OAUTH2_NO_EMAIL"
    ELSE "none"
oauth2_early(user_info) ==
    IF ~user_info.ok THEN "OAUTH2_ERROR"
    ELSE IF user_info.email \in {NoEmail, ""} THEN "OAUTH2_NO_EMAIL"
    ELSE "none"

\* sign_in_oauth2, lines 119-147: the branch taken for the row `user` the
\* lookup returned.  Reading user.oauth_provider (line 121) raises
\* AttributeError and User(..., oauth_provider=...) (line 138) raises TypeError
\* when User has no such column; both are caught at line 169.
oauth2_branch(provider, user_info, user) ==
    IF user # NoUser
    THEN IF ~HasColumn("oauth_provider") THEN "INTERNAL_ERROR"
         ELSE IF user.oauth_provider # NoProvider /\ user.oauth_provider # provider
         THEN "ACCOUNT_EXISTS"
         ELSE IF user.oauth_provider = NoProvider THEN "upgrade"
         ELSE "accept"
    ELSE IF ~HasColumn("oauth_provider") \/ ~HasColumn("oauth_provider_user_id")
         THEN "INTERNAL_ERROR"
         ELSE IF ~UniqueEmail(user_info.email) THEN "INTERNAL_ERROR"
         ELSE "create"

\* sign_in_oauth2, lines 119-176, for the row `user` the lookup returned
oauth2_account(provider, user_info, user) ==
    LET branch == oauth2_branch(provider, user_info, user)
        succeed(user_id) ==
            /\ create_token_pair(tokens, user_id)
            /\ last' = [Reply("sign_in_oauth2", "OK", user_info.email, user_id, 0, nextTok)
                            EXCEPT !.provider = provider]
            /\ UNCHANGED now
    IN
    IF branch = "upgrade"
    THEN /\ users' = (users \ {user}) \cup
               {[user EXCEPT !.oauth_provider = provider,
                             !.oauth_provider_user_id = user_info.provider_user_id,
                             !.hashed_password = hash_password(generate_random_password)]}
         /\ UNCHANGED nextUid
         /\ succeed(user.id)
    ELSE IF branch = "accept"
    THEN /\ UNCHANGED <<users, nextUid>>
         /\ succeed(user.id)
    ELSE IF branch = "create"
    THEN /\ nextUid <= MaxUsers
         /\ users' = users \cup
               {UserRow(nextUid, user_info.email, user_info.name,
                        hash_password(generate_random_password),
                        provider, user_info.provider_user_id)}
         /\ nextUid' = nextUid + 1
         /\ succeed(nextUid)
    ELSE /\ last' = [Reply("sign_in_oauth2", branch, user_info.email, user.id, 0, 0)
                        EXCEPT !.provider = provider]
         /\ UNCHANGED <<users, tokens, nextUid, nextTok, now, issued>>

\* POST /auth/sign-in/oauth2, from the result of the exchange on
sign_in_oauth2(provider, user_info) ==
    /\ IF oauth2_early(user_info) # "none"
       THEN respond("sign_in_oauth2", oauth2_early(user_info), user_info.email, 0, 0)
       ELSE oauth2_account(provider, user_info, UserByEmail(user_info.email))
    /\ UNCHANGED req

\* sign_in_password, lines 185-194: the reply authenticate_user decides; an
\* exception it raises is not caught by the handler
sign_in_password_code(email, password) ==
    LET user == authenticate_user(email, password) IN
    IF user = Raised THEN "EXCEPTION"
    ELSE IF user = NoUser THEN "INVALID_CREDENTIALS"
    ELSE "OK"

\* POST /auth/sign-in/password
sign_in_password(email, password) ==
    LET user == authenticate_user(email, password) IN
    /\ IF sign_in_password_code(email, password) # "OK"
       THEN respond("sign_in_password", sign_in_password_code(email, password),
                    email, 0, 0)
       ELSE /\ create_token_pair(tokens, user.id)
            /\ last' = Reply("sign_in_password", "OK", email, user.id, 0, nextTok)
            /\ UNCHANGED <<users, nextUid, now>>
    /\ UNCHANGED req

\* refresh_token, lines 271-273: what becomes of the presented row (the
\* delete is commented out)
refresh_rotation_revoke(store, refresh_token_obj) == store \ {refresh_token_obj}
refresh_rotation(store, refresh_token_obj) == store

\* refresh_token, lines 258-265: verify_refresh_token returned None
refresh_invalid(store, token) ==
    /\ tokens' = store
    /\ last' = Reply("refresh", "INVALID_TOKEN", NoEmail, 0, token, 0)
    /\ UNCHANGED <<users, nextUid, nextTok, now, issued>>

\* refresh_token, line 268: the user the new pair is created for
refresh_owner_first(refresh_token_obj) == 1
refresh_owner(refresh_token_obj) == refresh_token_obj.user_id

\* refresh_token, lines 267-278: the new pair for the owner of the row
refresh_issue(store, refresh_token_obj) ==
    /\ create_token_pair(refresh_rotation(store, refresh_token_obj),
                         refresh_owner(refresh_token_obj))
    /\ last' = Reply("refresh", "OK", NoEmail, refresh_token_obj.user_id,
                     refresh_token_obj.token, nextTok)
    /\ UNCHANGED <<users, nextUid, now>>

\* POST /auth/token/refresh
refresh_token(token) ==
    LET refresh_token_obj == verify_refresh_token(token)
        store == verify_refresh_token_store(token)
    IN
    /\ IF refresh_token_obj = NoToken
       THEN refresh_invalid(store, token)
       ELSE refresh_issue(store, refresh_token_obj)
    /\ UNCHANGED req

\* ------------------------------------------------- bearer authentication
\* what a client can put in the Authorization header: nothing (parts = 0), or
\* `parts` whitespace-separated words, the first the scheme, the second a
\* credential
NotAJwt == [sub |-> 0, exp |-> 0, type |-> "none", key |-> "not-a-jwt"]
Credentials == {p.access_token : p \in issued} \cup {NotAJwt}
Schemes == {"Bearer", "bearer", "Basic"}
Headers ==
    [parts : {0, 1, 3}, scheme : {"Bearer"}, token : {NotAJwt}]
    \cup [parts : {2}, scheme : Schemes, token : Credentials]

\* str.lower() on the schemes above
Lower(scheme) == IF scheme = "Bearer" THEN "bearer"
                 ELSE IF scheme = "Basic" THEN "basic" ELSE scheme

\* get_current_user, lines 134-193: the message of the HTTPException(401) it
\* raises, "none" when it raises none.  `not user_id` holds for None.
unauthorized_reason_any_scheme(authorization) ==
    IF authorization.parts = 0 THEN "Authorization header missing"
    ELSE IF authorization.parts # 2 THEN "Invalid authorization header format"
    ELSE IF verify_access_token(authorization.token) = 0 THEN "Invalid or expired token"
    ELSE IF UserById(verify_access_token(authorization.token)) = NoUser THEN "User not found"
    ELSE "none"
unauthorized_reason(authorization) ==
    IF authorization.parts = 0 THEN "Authorization header missing"
    ELSE IF authorization.parts # 2 \/ Lower(authorization.scheme) # "bearer"
         THEN "Invalid authorization header format"
    ELSE IF verify_access_token(authorization.token) = 0 THEN "Invalid or expired token"
    ELSE IF UserById(verify_access_token(authorization.token)) = NoUser THEN "User not found"
    ELSE "none"

\* get_current_user: the user, or NoUser when it raises HTTPException(401)
get_current_user(authorization) ==
    IF unauthorized_reason(authorization) # "none" THEN NoUser
    ELSE UserById(verify_access_token(authorization.token))

\* GET /auth/session
get_session(authorization) ==
    LET current_user == get_current_user(authorization) IN
    /\ IF current_user = NoUser
       THEN respond("get_session", "UNAUTHORIZED", NoEmail, 0, 0)
       ELSE respond("get_session", "OK", current_user.email, current_user.id, 0)
    /\ UNCHANGED req

\* DELETE /auth/session
sign_out(authorization) ==
    LET current_user == get_current_user(authorization) IN
    /\ IF current_user = NoUser
       THEN respond("sign_out", "UNAUTHORIZED", NoEmail, 0, 0)
       ELSE /\ tokens' = revoke_all_user_tokens(current_user.id)
            /\ last' = Reply("sign_out", "OK", current_user.email, current_user.id, 0, 0)
            /\ UNCHANGED <<users, nextUid, nextTok, now, issued>>
    /\ UNCHANGED req

\* time passes, to a later one of the instants `instants`: the last response
\* no longer describes the current instant
Tick(instants) ==
    /\ \E t \in instants : t > now /\ now' = t
    /\ last' = Reply("none", "none", NoEmail, 0, 0, 0)
    /\ UNCHANGED <<users, tokens, nextUid, nextTok, issued, req>>

\* the refresh token strings a client can present: one that matches no row
\* ever (0) or one the server has handed out
Presentable == 0 .. (nextTok - 1)

Next ==
    \/ \E e \in Emails, p \in Passwords, n \in Names : sign_up(e, p, n)
    \/ \E e \in Emails, p \in Passwords : sign_in_password(e, p)
    \/ \E P \in Providers, x \in ExchangeResults : sign_in_oauth2(P, x)
    \/ \E t \in Presentable : refresh_token(t)
    \/ \E h \in Headers : get_session(h)
    \/ \E h \in Headers : sign_out(h)
    \/ Tick(Instants)

Spec == Init /\ [][Next]_vars

\* ------------------------------------------------- bearer-token handling
\* sign_up, which signs access tokens, and the two handlers that demand one,
\* with the clock around the expiry of an access token and with credentials
\* the server did not hand out.
\* instants: the start, the expiry of an access token signed at the start,
\* and one minute past it
AccessInstants == {0, access_token_expire_minutes, access_token_expire_minutes + 1}

\* a subject that is the id of no row of users
GhostUser == MaxUsers + 1

\* JWTs the server did not hand out, none of them expired: access tokens
\* signed with secret_key for no subject (0: no "sub"), for user 1 and for
\* the id of no user; tokens for user 1 of another type or without a type
\* ("none"); an access token for user 1 signed with another key
ForgedCredentials ==
    [sub : {0, 1, GhostUser}, exp : {access_token_expire_minutes + 1},
     type : {"access"}, key : {secret_key}]
    \cup [sub : {1}, exp : {access_token_expire_minutes + 1},
          type : {"refresh", "none"}, key : {secret_key}]
    \cup [sub : {1}, exp : {access_token_expire_minutes + 1},
          type : {"access"}, key : {"other-key"}]

\* a refresh token string ("ref_<hex>") sent as the bearer credential: it has
\* no JWT segments
RefreshStrings ==
    {[sub |-> 0, exp |-> 0, type |-> "none", key |-> "not-a-jwt", ref |-> t] :
        t \in Presentable \ {0}}

BearerCredentials == Credentials \cup ForgedCredentials \cup RefreshStrings
BearerHeaders ==
    Headers \cup [parts : {2}, scheme : {"Bearer"},
                  token : ForgedCredentials \cup RefreshStrings]

NextBearer ==
    \/ \E e \in Emails, p \in ConcPasswords, n \in Names : sign_up(e, p, n)
    \/ \E h \in BearerHeaders : get_session(h)
    \/ \E h \in BearerHeaders : sign_out(h)
    \/ Tick(AccessInstants)

SpecBearer == Init /\ [][NextBearer]_vars

\* ------------------------------------------- interleaved request handling
\* Every store access of a handler that commits after it has read is a step
\* of its own; a worker serves one request at a time.
IsIdle(w) == req[w].pc = "idle"
Finish(w) == req' = [req EXCEPT ![w] = Idle]

\* sign_up up to its lookup (line 215)
SignUpLookup(w, email, password, name) ==
    /\ IsIdle(w)
    /\ IF sign_up_exists(email)
       THEN /\ respond("sign_up", "EMAIL_EXISTS", email, 0, 0)
            /\ UNCHANGED req
       ELSE /\ req' = [req EXCEPT ![w] = [Idle EXCEPT !.pc = "sign_up_commit",
                           !.email = email, !.hashed = hash_password(password),
                           !.name = name]]
            /\ UNCHANGED <<users, tokens, nextUid, nextTok, now, issued, last>>

\* sign_up from db.add on (lines 234-247)
SignUpCommit(w) ==
    /\ req[w].pc = "sign_up_commit"
    /\ nextTok <= MaxConcTokens
    /\ sign_up_commit(req[w].email, req[w].hashed, req[w].name)
    /\ Finish(w)

\* sign_in_oauth2 up to its lookup (line 117)
OAuth2Lookup(w, provider, user_info) ==
    /\ IsIdle(w)
    /\ IF oauth2_early(user_info) # "none"
       THEN /\ respond("sign_in_oauth2", oauth2_early(user_info), user_info.email, 0, 0)
            /\ UNCHANGED req
       ELSE /\ req' = [req EXCEPT ![w] = [Idle EXCEPT !.pc = "oauth2_account",
                           !.email = user_info.email, !.name = user_info.name,
                           !.provider = provider,
                           !.user = UserByEmail(user_info.email)]]
            /\ UNCHANGED <<users, tokens, nextUid, nextTok, now, issued, last>>

\* sign_in_oauth2 from line 119 on, with the row it looked up
OAuth2Account(w) ==
    /\ req[w].pc = "oauth2_account"
    /\ nextTok <= MaxConcTokens
    /\ oauth2_account(req[w].provider,
                      [ok |-> TRUE, email |-> req[w].email, name |-> req[w].name,
                       provider_user_id |-> "pid-1"],
                      req[w].user)
    /\ Finish(w)

\* refresh_token up to the return of verify_refresh_token (line 256)
RefreshVerify(w, token) ==
    /\ IsIdle(w)
    /\ IF verify_refresh_token(token) = NoToken
       THEN /\ refresh_invalid(verify_refresh_token_store(token), token)
            /\ UNCHANGED req
       ELSE /\ req' = [req EXCEPT ![w] = [Idle EXCEPT !.pc = "refresh_issue",
                           !.row = verify_refresh_token(token)]]
            /\ UNCHANGED <<users, tokens, nextUid, nextTok, now, issued, last>>

\* refresh_token from create_token_pair on (line 268)
RefreshIssue(w) ==
    /\ req[w].pc = "refresh_issue"
    /\ nextTok <= MaxConcTokens
    /\ refresh_issue(tokens, req[w].row)
    /\ Finish(w)

NextConc ==
    \/ \E w \in Workers, e \in Emails, p \in ConcPasswords, n \in Names :
            SignUpLookup(w, e, p, n)
    \/ \E w \in Workers : SignUpCommit(w)
    \/ \E w \in Workers, P \in Providers, x \in ExchangeResults : OAuth2Lookup(w, P, x)
    \/ \E w \in Workers : OAuth2Account(w)
    \/ \E w \in Workers, t \in Presentable : RefreshVerify(w, t)
    \/ \E w \in Workers : RefreshIssue(w)
    \/ \E e \in Emails, p \in ConcPasswords : sign_in_password(e, p)
    \/ \E h \in Headers : sign_out(h)
    \/ Tick(ConcInstants)

SpecConc == Init /\ [][NextConc]_vars

\* ------------------------------------------------------------- properties
\* the refresh token strings handed out so far
Issued == 1 .. (nextTok - 1)
\* the refresh tokens that were handed out together with an access token for `user_id`
IssuedTo(user_id) == {p.refresh_token : p \in {q \in issued : q.access_token.sub = user_id}}
\* a refresh presenting `token` now would succeed
Verifies(token) == verify_refresh_token(token) # NoToken
\* `token` was handed out and its row has been deleted
Gone(token) == token \in Issued /\ TokenByString(token) = NoToken

\* the state is the one the response of `op` left: no time has passed since
JustAfter(op, code) == last.op = op /\ last.code = code

\* C1: in the state a successful sign_out by user u leaves, the store holds no
\* row owned by u, and every refresh token ever handed out to u (by sign-up,
\* sign-in or refresh) no longer verifies, so that a refresh presenting it
\* returns INVALID_TOKEN.
C1_SignOutRevokesAll ==
    JustAfter("sign_out", "OK") =>
        /\ \A r \in tokens : r.user_id # last.user_id
        /\ \A t \in IssuedTo(last.user_id) : Gone(t) /\ ~Verifies(t)

\* C1 witness: u signed out after having been handed two refresh tokens, while
\* another user's token is still stored.
C1_Witness ==
    /\ JustAfter("sign_out", "OK")
    /\ Cardinality(IssuedTo(last.user_id)) >= 2
    /\ tokens # {}

\* C2: a refresh token string that was handed out and whose row has been
\* deleted (by sign-out, or by a verify that found it expired) has no row
\* and does not verify after any further step: strings are never re-inserted.
C2_RevokedStaysInvalid ==
    [][\A t \in 1 .. (MaxTokens + 1) : Gone(t) => (Gone(t))' /\ ~(Verifies(t))']_vars

\* C2 witness: a refresh presenting a deleted token string was answered
\* INVALID_TOKEN after a later token had been issued and is still stored.
C2_Witness ==
    /\ JustAfter("refresh", "INVALID_TOKEN")
    /\ Gone(last.token)
    /\ \E r \in tokens : r.token > last.token

\* C3: in the state a successful refresh leaves, the presented token and the
\* newly issued one are two different stored tokens and both verify, so the
\* presented one can be presented again.
C3_RefreshKeepsPresented ==
    JustAfter("refresh", "OK") =>
        /\ last.issued # last.token
        /\ Verifies(last.token)
        /\ Verifies(last.issued)

\* C3 witness: the first token of the only user was presented a second time
\* and the refresh succeeded again.
C3_Witness ==
    /\ JustAfter("refresh", "OK")
    /\ last.token = 1 /\ last.issued = 3
    /\ Cardinality(users) = 1

\* C4: after a successful refresh, the new refresh-token row is owned by the
\* user the presented token was handed out to, and the new access token
\* verifies to that user.
C4_RefreshSameOwner ==
    JustAfter("refresh", "OK") =>
        \A p \in issued, q \in issued :
            (p.refresh_token = last.token /\ q.refresh_token = last.issued) =>
                /\ q.access_token.sub = p.access_token.sub
                /\ verify_access_token(q.access_token) = p.access_token.sub
                /\ TokenByString(last.issued).user_id = p.access_token.sub

\* C4 witness: the second user refreshed successfully while the first user
\* exists too.
C4_Witness ==
    /\ JustAfter("refresh", "OK")
    /\ last.user_id = 2
    /\ \E p \in issued : p.refresh_token = last.issued /\ p.access_token.sub = 2

\* C5: a refresh presenting a string that matches no stored row is answered
\* INVALID_TOKEN, signs no access token and inserts no row.
C5_UnknownTokenRejected ==
    [][\A t \in 0 .. (MaxTokens + 1) :
          (/\ TokenByString(t) = NoToken
           /\ last'.op = "refresh"
           /\ refresh_token(t)) =>
              /\ last'.code = "INVALID_TOKEN"
              /\ tokens' = tokens
              /\ issued' = issued
              /\ nextTok' = nextTok]_vars

\* C5 witness: a string that never was a token was refused while tokens are stored.
C5_Witness ==
    /\ JustAfter("refresh", "INVALID_TOKEN")
    /\ last.token = 0
    /\ tokens # {}

\* the identity an exchange returns for `email`
IdentityOf(email) ==
    [ok |-> TRUE, email |-> email, name |-> "Ann", provider_user_id |-> "pid-1"]
\* an OAuth2 sign-in carrying last.email has just reached the account step and
\* was not refused: the account of that email is, from here on, linked to a provider
JustLinked ==
    /\ last.op = "sign_in_oauth2"
    /\ last.code \notin {"OAUTH2_ERROR", "OAUTH2_NO_EMAIL", "ACCOUNT_EXISTS"}

\* C6: password sign-in for a user linked to an OAuth2 provider is answered
\* INVALID_CREDENTIALS, whatever password is submitted.
C6_LinkedUserPasswordRefused ==
    JustLinked =>
        \A p \in Passwords : sign_in_password_code(last.email, p) = "INVALID_CREDENTIALS"

\* C7: an OAuth2 sign-in whose identity email is that of an existing account
\* succeeds unless the account belongs to another provider, and then no
\* password a client submits verifies against the stored hash.
C7_UpgradeReplacesHash ==
    (JustLinked /\ last.user_id # 0) =>
        /\ last.code = "OK"
        /\ \A p \in Passwords :
              verify_password(p, UserById(last.user_id).hashed_password) # "True"

\* C8: once the account of an email is linked to provider Q, an OAuth2 sign-in
\* of any other provider carrying that email is answered ACCOUNT_EXISTS.
C8_OtherProviderRefused ==
    JustLinked =>
        \A P \in Providers \ {last.provider} :
            oauth2_branch(P, IdentityOf(last.email), UserByEmail(last.email))
                = "ACCOUNT_EXISTS"

\* C9: a sign_up whose email belongs to a user is answered EMAIL_EXISTS and
\* changes neither table and signs no token.
C9_DuplicateEmailRejected ==
    [][\A e \in Emails, p \in Passwords, n \in Names :
          (/\ \E u \in users : u.email = e
           /\ last'.op = "sign_up" /\ last'.email = e
           /\ sign_up(e, p, n)) =>
              /\ last'.code = "EMAIL_EXISTS"
              /\ users' = users
              /\ tokens' = tokens
              /\ issued' = issued]_vars

\* C9 witness: a sign_up was refused for the email of a stored user.
C9_Witness ==
    /\ JustAfter("sign_up", "EMAIL_EXISTS")
    /\ \E u \in users : u.email = last.email

\* C10: no two rows of users share an email, however sign_up and
\* sign_in_oauth2 requests interleave between their lookup and their commit.
C10_EmailUnique ==
    \A u \in users, v \in users : u.email = v.email => u = v

\* C10 witness: two sign_up requests for one email both passed the lookup and
\* the commit of the second was rejected by the store.
C10_Witness ==
    /\ JustAfter("sign_up", "EXCEPTION")
    /\ \E u \in users : u.email = last.email

\* C11: for every account created by sign_up (none is ever linked to a
\* provider here), a password sign-in with the password that was hashed
\* succeeds and one with any other password is answered INVALID_CREDENTIALS.
C11_PasswordSignIn ==
    \A u \in users, q \in Passwords :
        sign_in_password_code(u.email, q) =
            IF u.hashed_password = hash_password(q) THEN "OK" ELSE "INVALID_CREDENTIALS"

\* the Authorization header "Bearer <token>"
BearerOf(token) == [parts |-> 2, scheme |-> "Bearer", token |-> token]

\* C12: an access token handed out for user u at time t0 verifies to u at
\* every time up to t0 + access_token_expire_minutes and verifies to nothing
\* after it, whatever rows have been inserted or deleted since.
C12_AccessTokenLifetime ==
    \A p \in issued :
        IF now <= p.at + access_token_expire_minutes
        THEN /\ verify_access_token(p.access_token) = p.access_token.sub
             /\ get_current_user(BearerOf(p.access_token)).id = p.access_token.sub
        ELSE /\ verify_access_token(p.access_token) = 0
             /\ get_current_user(BearerOf(p.access_token)) = NoUser

\* C12 witness: at its expiry instant the access token signed at the start was
\* accepted by get_session although every refresh token row has been deleted.
C12_Witness ==
    /\ now = access_token_expire_minutes
    /\ JustAfter("get_session", "OK")
    /\ tokens = {}
    /\ \E p \in issued : p.at = 0 /\ p.access_token.sub = last.user_id

\* a JWT signed with secret_key for user 1, not expired, of type `type`
SignedFor1(type) ==
    [sub |-> 1, exp |-> access_token_expire_minutes + 1, type |-> type, key |-> secret_key]

\* C13: verify_access_token returns a user id only for a token signed with
\* secret_key, not expired, of type "access" and with a subject, and then it
\* returns that subject; a credential of another type or without a type, and a
\* refresh token string, is accepted by get_current_user (so by get_session
\* and sign_out) under no scheme.
C13_OnlyAccessTokensAccepted ==
    \A c \in BearerCredentials :
        /\ verify_access_token(c) # 0 =>
              /\ c.key = secret_key /\ c.exp >= now
              /\ c.type = "access" /\ c.sub # 0
              /\ verify_access_token(c) = c.sub
        /\ (c.type # "access" \/ c \in RefreshStrings) =>
              \A scheme \in Schemes :
                  get_current_user([parts |-> 2, scheme |-> scheme, token |-> c]) = NoUser

\* C13 witness: user 1 exists and a request was refused while a correctly
\* signed, unexpired token for user 1 is refused for its type alone, and a
\* refresh token string that is stored is refused too.
C13_Witness ==
    /\ JustAfter("get_session", "UNAUTHORIZED")
    /\ get_current_user(BearerOf(SignedFor1("access"))).id = 1
    /\ get_current_user(BearerOf(SignedFor1("refresh"))) = NoUser
    /\ \E c \in RefreshStrings : TokenByString(c.ref) # NoToken

\* C14: for every credential (not a JWT, expired, signed with another key,
\* without a subject or without a type, or valid) verify_access_token returns
\* a value, None (0) or a user id, and never leaves by an exception; it
\* returns None for each of the defective ones.
C14_VerifyNeverRaises ==
    \A c \in BearerCredentials :
        /\ verify_access_token(c) >= 0
        /\ (\/ c.key # secret_key
            \/ c.exp < now
            \/ c.sub = 0
            \/ c.type = "none") => verify_access_token(c) = 0

\* C14 witness: an access token the server handed out has expired and a
\* request was answered UNAUTHORIZED, not by an exception.
C14_Witness ==
    /\ JustAfter("get_session", "UNAUTHORIZED")
    /\ \E p \in issued : p.access_token.exp < now /\ jwt_decode_raises(p.access_token)

\* the stored hash of a row after its scheme prefix was damaged: a value
\* hash_password did not produce
Malformed(hashed_password) == [hashed_password EXCEPT !.scheme = "none"]

\* C15: verify_password answers False, without raising, when the stored hash
\* of a user is replaced by a value that hash_password did not produce,
\* whatever password is submitted.
C15_MalformedHashIsFalse ==
    \A u \in users, p \in Passwords :
        verify_password(p, Malformed(u.hashed_password)) = "False"

\* C16: any two password sign-ins that fail get the same response, whether
\* the email is unknown, belongs to a linked user, or the password is wrong.
C16_FailuresIndistinguishable ==
    \A e1 \in Emails, e2 \in Emails, p1 \in Passwords, p2 \in Passwords :
        (/\ sign_in_password_code(e1, p1) # "OK"
         /\ sign_in_password_code(e2, p2) # "OK") =>
            sign_in_password_code(e1, p1) = sign_in_password_code(e2, p2)

\* C17: an OAuth2 sign-in whose exchanged identity carries no email (None or
\* the empty string) is answered OAUTH2_NO_EMAIL and changes no row of users,
\* inserts no refresh token and signs no access token.
C17_NoEmailRejected ==
    [][last'.op = "sign_in_oauth2" =>
          \A P \in Providers, x \in ExchangeResults :
              (/\ x.ok /\ x.email \in {NoEmail, ""}
               /\ sign_in_oauth2(P, x)) =>
                  /\ last'.code = "OAUTH2_NO_EMAIL"
                  /\ users' = users
                  /\ tokens' = tokens
                  /\ issued' = issued]_vars

\* C17 witness: an identity with an empty email was refused while users and
\* tokens are stored.
C17_Witness ==
    /\ JustAfter("sign_in_oauth2", "OAUTH2_NO_EMAIL")
    /\ last.email = ""
    /\ users # {} /\ tokens # {}

\* C18: every sign_up, sign_in_password, sign_in_oauth2 and refresh request
\* ends in a returned value, a success or a tagged error, and never in an
\* exception that leaves the handler, however the requests interleave.
C18_NoUncaughtException ==
    last.op \in {"sign_up", "sign_in_password", "sign_in_oauth2", "refresh"} =>
        last.code # "EXCEPTION"

\* C19: a step that ends in a successful sign_up, sign_in_password,
\* sign_in_oauth2 or refresh inserts exactly one refresh token row; the row
\* is owned by the user of the response, expires refresh_token_expire_days
\* after the step, and its string is the one handed out together with an
\* access token of that user.  Any other step inserts no row.
C19_OneTokenPerSuccess ==
    [][LET inserted == tokens' \ tokens IN
       IF /\ last'.op \in {"sign_up", "sign_in_password", "sign_in_oauth2", "refresh"}
          /\ last'.code = "OK"
       THEN \E r \in inserted :
               /\ inserted = {r}
               /\ r.user_id = last'.user_id
               /\ r.expires_at = now + refresh_token_expire_days * MinutesPerDay
               /\ r.token = last'.issued
               /\ \E p \in issued' \ issued :
                     /\ issued' \ issued = {p}
                     /\ p.refresh_token = r.token
                     /\ p.access_token.sub = r.user_id
       ELSE inserted = {}]_vars

\* C19 witness: a refresh at a later instant succeeded and its new row expires
\* refresh_token_expire_days after that instant.
C19_Witness ==
    /\ JustAfter("refresh", "OK")
    /\ now > 0
    /\ TokenByString(last.issued).expires_at
           = now + refresh_token_expire_days * MinutesPerDay
    /\ TokenByString(last.issued).user_id = last.user_id

\* the four checks of the claim, each stated on its own
HeaderMissing(h) == h.parts = 0
HeaderMalformed(h) == h.parts # 2 \/ h.scheme \notin {"Bearer", "bearer"}
TokenInvalid(h) == verify_access_token(h.token) = 0
SubjectUnknown(h) == \A u \in users : u.id # verify_access_token(h.token)
Refused(h) ==
    HeaderMissing(h) \/ HeaderMalformed(h) \/ TokenInvalid(h) \/ SubjectUnknown(h)

\* C20: get_session and sign_out answer UNAUTHORIZED and write nothing when
\* the header is missing, is not "bearer <token>" (scheme in any case), the
\* token does not verify or its subject is no user; the reason reported is
\* that of the first of these checks that fails; they proceed, for the user of
\* the token, only when all four pass.
C20_BearerChecks ==
    /\ [](\A h \in BearerHeaders :
            unauthorized_reason(h) =
                IF HeaderMissing(h) THEN "Authorization header missing"
                ELSE IF HeaderMalformed(h) THEN "Invalid authorization header format"
                ELSE IF TokenInvalid(h) THEN "Invalid or expired token"
                ELSE IF SubjectUnknown(h) THEN "User not found"
                ELSE "none")
    /\ [][\A h \in BearerHeaders :
            (\/ last'.op = "get_session" /\ get_session(h)
             \/ last'.op = "sign_out" /\ sign_out(h)) =>
                IF Refused(h)
                THEN /\ last'.code = "UNAUTHORIZED"
                     /\ users' = users /\ tokens' = tokens /\ issued' = issued
                ELSE /\ last'.code = "OK"
                     /\ last'.user_id = verify_access_token(h.token)]_vars

\* C20 witness: a sign_out was refused while tokens are stored, in a state
\* where a correctly signed token of an unknown subject passes the first three
\* checks and fails the fourth.
C20_Witness ==
    /\ JustAfter("sign_out", "UNAUTHORIZED")
    /\ tokens # {}
    /\ \E c \in ForgedCredentials :
          /\ c.sub = GhostUser
          /\ unauthorized_reason(BearerOf(c)) = "User not found"

\* ---------------------------------------------------------- oauth2_utils.py
\* The provider exchange of sign_in_oauth2, one step per remote call.  In this
\* part req[w] is the OAuth2 request worker w is serving, together with the
\* OAUTH2_PROVIDERS table of its process and the log of its remote calls and
\* store accesses.
\* request.provider is any string: the registered names and one other
ProviderNames == Providers \cup {"gitlab"}
ExchangeWorkers == {"w1"}

\* OAUTH2_PROVIDERS: for each registered provider its client id and secret
\* ("" where settings has no such attribute)
ProviderConfigs ==
    [Providers -> [client_id : {"", "client-id"}, client_secret : {"", "client-secret"}]]

get_enabled_providers_id_only(config) ==
    {p \in Providers : config[p].client_id # ""}
get_enabled_providers(config) ==
    {p \in Providers : config[p].client_id # "" /\ config[p].client_secret # ""}

\* GET /auth/providers: what it lists of every enabled provider
get_oauth_providers(config) ==
    {[name |-> p, clientId |-> config[p].client_id] : p \in get_enabled_providers(config)}

\* exchange_oauth2_code, lines 91-96: the ValueError raised before any remote
\* call, "none" when there is none
exchange_config_error_unchecked(provider_name, config) ==
    IF provider_name \notin DOMAIN config THEN "not configured"
    ELSE "none"
exchange_config_error(provider_name, config) ==
    IF provider_name \notin DOMAIN config THEN "not configured"
    ELSE IF config[provider_name].client_id = "" \/ config[provider_name].client_secret = ""
         THEN "not properly configured"
    ELSE "none"

\* what a remote call can do: raise a transport error of httpx (raised), or
\* return a response with a status and a JSON body
TokenResponses ==
    {[raised |-> TRUE, status |-> 0, access_token |-> ""]}
    \cup [raised : {FALSE}, status : {200, 400}, access_token : {"", "provider-token"}]
UserinfoResponses ==
    {[raised |-> TRUE, status |-> 0, email |-> NoEmail, name |-> NoName]}
    \cup [raised : {FALSE}, status : {200, 401}, email : {NoEmail, "", "a@x.com"},
          name : Names]
\* the body of GET /user/emails: up to two entries
Listings ==
    {<<>>} \cup {<<x>> : x \in [email : Emails, primary : BOOLEAN]}
    \cup {<<x, y>> : x \in [email : {"a@x.com"}, primary : BOOLEAN],
                     y \in [email : {"b@x.com"}, primary : BOOLEAN]}
EmailsResponses ==
    {[raised |-> TRUE, status |-> 0, emails |-> <<>>],
     [raised |-> FALSE, status |-> 403, emails |-> <<>>]}
    \cup [raised : {FALSE}, status : {200}, emails : Listings]

\* lines 165-168: next((e for e in emails if e.get("primary")),
\* emails[0] if emails else None), then its "email"; NoEmail for None
primary_email_first_entry(emails) ==
    IF emails # <<>> THEN emails[1].email ELSE NoEmail
primary_email(emails) ==
    IF \E i \in 1 .. Len(emails) : emails[i].primary
    THEN emails[CHOOSE i \in 1 .. Len(emails) :
                    /\ emails[i].primary
                    /\ \A j \in 1 .. (i - 1) : ~emails[j].primary].email
    ELSE IF emails # <<>> THEN emails[1].email
    ELSE NoEmail

\* lines 157-171: the email of a github identity whose profile email is empty
github_email(profile_email, response) ==
    IF response.status = 200 /\ primary_email(response.emails) # NoEmail
    THEN primary_email(response.emails)
    ELSE profile_email

\* the request record of an idle worker whose process has the table `config`
ExchangeIdle(config) ==
    [pc |-> "idle", config |-> config, provider |-> NoProvider, calls |-> <<>>,
     email |-> NoEmail, name |-> NoName]

\* an entry of the log of a request: a remote call with the status of its
\* response (0: none, the call raised) and whether the body held what the
\* code looks for in it, or a store access (leg = "db")
Call(leg, status, body_ok) == [leg |-> leg, status |-> status, body_ok |-> body_ok]

InitExchange ==
    /\ users = {}
    /\ tokens = {}
    /\ nextUid = 1
    /\ nextTok = 1
    /\ now = 0
    /\ issued = {}
    /\ last = Reply("none", "none", NoEmail, 0, 0, 0)
    /\ \E config \in ProviderConfigs : req = [w \in ExchangeWorkers |-> ExchangeIdle(config)]

\* the exception handlers of sign_in_oauth2 (lines 161-176): the request ends
\* with `code`, its log being `calls`
exchange_fail(w, code, calls) ==
    /\ respond("sign_in_oauth2", code, NoEmail, 0, 0)
    /\ req' = [req EXCEPT ![w].pc = "idle", ![w].calls = calls]

\* the request goes on to the step `pc`
exchange_goto(w, pc, calls, email, name) ==
    /\ req' = [req EXCEPT ![w].pc = pc, ![w].calls = calls,
                          ![w].email = email, ![w].name = name]
    /\ UNCHANGED <<users, tokens, nextUid, nextTok, now, issued, last>>

\* lines 115-126: the token endpoint answered 200 with an access_token
token_ok_any_status(response) == response.access_token # ""
token_ok(response) == response.status = 200 /\ response.access_token # ""

\* lines 138-141: the user-info endpoint answered 200
userinfo_ok_any_status(response) == ~response.raised
userinfo_ok(response) == response.status = 200

\* sign_in_oauth2 called with request.provider = provider_name: lines 91-96 of
\* exchange_oauth2_code, before any remote call
ExchangeStart(w, provider_name) ==
    /\ req[w].pc = "idle"
    /\ LET fresh == [ExchangeIdle(req[w].config) EXCEPT !.provider = provider_name] IN
       IF exchange_config_error(provider_name, req[w].config) # "none"
       THEN /\ respond("sign_in_oauth2", "OAUTH2_ERROR", NoEmail, 0, 0)
            /\ req' = [req EXCEPT ![w] = fresh]
       ELSE /\ req' = [req EXCEPT ![w] = [fresh EXCEPT !.pc = "token_call"]]
            /\ UNCHANGED <<users, tokens, nextUid, nextTok, now, issued, last>>

\* lines 98-126: POST to the token endpoint
TokenCall(w, response) ==
    /\ req[w].pc = "token_call"
    /\ LET calls == Append(req[w].calls,
                           Call("token", response.status, response.access_token # ""))
       IN
       IF response.raised THEN exchange_fail(w, "INTERNAL_ERROR", calls)
       ELSE IF ~token_ok(response) THEN exchange_fail(w, "OAUTH2_ERROR", calls)
       ELSE exchange_goto(w, "userinfo_call", calls, NoEmail, NoName)

\* lines 128-156: GET the user-info endpoint; a github profile with no email
\* leads to the listing call
UserinfoCall(w, response) ==
    /\ req[w].pc = "userinfo_call"
    /\ LET calls == Append(req[w].calls, Call("userinfo", response.status, TRUE)) IN
       IF response.raised THEN exchange_fail(w, "INTERNAL_ERROR", calls)
       ELSE IF ~userinfo_ok(response) THEN exchange_fail(w, "OAUTH2_ERROR", calls)
       ELSE IF req[w].provider = "github" /\ response.email \in {NoEmail, ""}
       THEN exchange_goto(w, "emails_call", calls, response.email, response.name)
       ELSE exchange_goto(w, "returned", calls, response.email, response.name)

\* lines 157-171: GET /user/emails of github
EmailsCall(w, response) ==
    /\ req[w].pc = "emails_call"
    /\ LET calls == Append(req[w].calls, Call("emails", response.status, TRUE)) IN
       IF response.raised THEN exchange_fail(w, "INTERNAL_ERROR", calls)
       ELSE exchange_goto(w, "returned", calls,
                          github_email(req[w].email, response), req[w].name)

\* sign_in_oauth2, lines 107-176, once exchange_oauth2_code has returned
OAuth2Handle(w) ==
    /\ req[w].pc = "returned"
    /\ LET user_info == [ok |-> TRUE, email |-> req[w].email, name |-> req[w].name,
                         provider_user_id |-> "pid-1"]
       IN
       IF oauth2_early(user_info) # "none"
       THEN /\ respond("sign_in_oauth2", oauth2_early(user_info), user_info.email, 0, 0)
            /\ req' = [req EXCEPT ![w].pc = "idle"]
       ELSE /\ oauth2_account(req[w].provider, user_info, UserByEmail(user_info.email))
            /\ req' = [req EXCEPT ![w].pc = "idle",
                                  ![w].calls = Append(req[w].calls, Call("db", 0, TRUE))]

NextExchange ==
    \/ \E e \in Emails, p \in ConcPasswords, n \in Names : sign_up(e, p, n)
    \/ \E w \in ExchangeWorkers, provider_name \in ProviderNames :
           ExchangeStart(w, provider_name)
    \/ \E w \in ExchangeWorkers, response \in TokenResponses : TokenCall(w, response)
    \/ \E w \in ExchangeWorkers, response \in UserinfoResponses : UserinfoCall(w, response)
    \/ \E w \in ExchangeWorkers, response \in EmailsResponses : EmailsCall(w, response)
    \/ \E w \in ExchangeWorkers : OAuth2Handle(w)

SpecExchange == InitExchange /\ [][NextExchange]_vars

RemoteStepFailed(call) ==
    /\ call.leg \in {"token", "userinfo"}
    /\ call.status # 0
    /\ call.status # 200 \/ ~call.body_ok
ExchangeFailed(r) ==
    /\ r.provider \in ProviderNames
    /\ \/ r.provider \notin Providers
       \/ r.provider \in Providers /\ r.provider \notin get_enabled_providers(r.config)
       \/ \E i \in 1 .. Len(r.calls) : RemoteStepFailed(r.calls[i])

\* this step ends the OAuth2 request of worker w
ExchangeEnds(w) ==
    /\ last'.op = "sign_in_oauth2"
    /\ req'[w].pc = "idle"
    /\ last' # last \/ req' # req

Legs(r) == [i \in 1 .. Len(r.calls) |-> r.calls[i].leg]

\* C23: exchange_oauth2_code does its steps in a fixed order and stops at the
\* first failure: no remote call when the provider name is unregistered or the
\* provider lacks credentials; the user-info endpoint is called only after the
\* token endpoint answered with success and a non-empty access token; an
\* identity is returned only after the user-info call answered with success.
C23_ExchangeOrder ==
    \A w \in ExchangeWorkers :
        LET r == req[w] IN
        /\ r.provider \in ProviderNames /\ r.provider \notin get_enabled_providers(r.config)
               => r.calls = <<>> /\ r.pc = "idle"
        /\ Legs(r) \in {<<>>, <<"token">>, <<"token", "userinfo">>,
                        <<"token", "userinfo", "emails">>,
                        <<"token", "userinfo", "db">>,
                        <<"token", "userinfo", "emails", "db">>}
        /\ \A i \in 1 .. Len(r.calls) :
               /\ r.calls[i].leg = "userinfo" => r.calls[i - 1] = Call("token", 200, TRUE)
               /\ (r.calls[i].status = 0 /\ r.calls[i].leg # "db") \/ RemoteStepFailed(r.calls[i])
                      => i = Len(r.calls) /\ r.pc = "idle"
        /\ (r.pc = "returned" \/ \E i \in 1 .. Len(r.calls) : r.calls[i].leg = "db")
               => r.calls[2] = Call("userinfo", 200, TRUE)
C23_Witness ==
    \E w \in ExchangeWorkers :
        /\ req[w].pc = "returned"
        /\ req[w].provider = "google"
        /\ req[w].calls = <<Call("token", 200, TRUE), Call("userinfo", 200, TRUE)>>
        /\ users # {}

\* the address the listing `emails` stands for: that of the first entry
\* flagged primary, else that of the first entry, else none
ListedEmail(emails) ==
    LET flagged == {i \in 1 .. Len(emails) : emails[i].primary} IN
    IF flagged # {}
    THEN emails[CHOOSE i \in flagged : \A j \in flagged : i <= j].email
    ELSE IF Len(emails) > 0 THEN emails[1].email
    ELSE NoEmail

C29_StoreAfterExchange ==
    /\ [](\A w \in ExchangeWorkers :
              \A i \in 1 .. Len(req[w].calls) :
                  req[w].calls[i].leg = "db"
                      => /\ i = Len(req[w].calls)
                         /\ i > 2
                         /\ req[w].calls[1] = Call("token", 200, TRUE)
                         /\ req[w].calls[2] = Call("userinfo", 200, TRUE)
                         /\ \A j \in 1 .. (i - 1) : req[w].calls[j].status = 200)
    /\ [][\A w \in ExchangeWorkers :
              req'[w] # req[w] /\ req[w].pc # "returned"
                  => users' = users /\ tokens' = tokens]_vars
C29_Witness ==
    \E w \in ExchangeWorkers :
        /\ req[w].pc = "idle"
        /\ Legs(req[w]) = <<"token", "userinfo", "emails", "db">>
        /\ last.op = "sign_in_oauth2"
        /\ users # {}

\* C24: verify_refresh_token on a stored token whose expiry is strictly
\* earlier than now deletes exactly that record and returns invalid; otherwise,
\* also when now equals the expiry, it returns the record and changes nothing;
\* every other record stays as it is, and no operation other than this one and
\* sign-out ever deletes a refresh-token record.
C24_ExpiredTokenPurged ==
    /\ [](\A r \in tokens :
              /\ verify_refresh_token(r.token) = IF r.expires_at < now THEN NoToken ELSE r
              /\ verify_refresh_token_store(r.token) =
                     IF r.expires_at < now THEN tokens \ {r} ELSE tokens)
    /\ [][/\ last'.op = "refresh" /\ TokenByString(last'.token) # NoToken
              => LET r == TokenByString(last'.token) IN
                 IF r.expires_at < now
                 THEN last'.code = "INVALID_TOKEN" /\ tokens' = tokens \ {r}
                 ELSE last'.code = "OK" /\ tokens \subseteq tokens'
          /\ tokens \ tokens' # {}
              => \/ last'.op = "sign_out" /\ last'.code = "OK"
                 \/ /\ last'.op = "refresh" /\ last'.code = "INVALID_TOKEN"
                    /\ tokens \ tokens' = {TokenByString(last'.token)}]_vars
C24_Witness ==
    /\ JustAfter("refresh", "INVALID_TOKEN")
    /\ last.token # 0
    /\ TokenByString(last.token) = NoToken
    /\ \E pair \in issued :
           /\ pair.refresh_token = last.token
           /\ pair.at + refresh_token_expire_days * MinutesPerDay < now
    /\ \E r \in tokens : r.expires_at < now

\* C25: revoke_all_user_tokens(u) deletes every record owned by u, expired or
\* not, returns the number of records it deleted (0 when u owns none, and 0
\* for a second call right after the first) and leaves the records of every
\* other user as they are.
C25_RevokeAll ==
    /\ [](\A u \in 1 .. MaxUsers :
              LET left == revoke_all_user_tokens(u) IN
              /\ left = {r \in tokens : r.user_id # u}
              /\ revoke_all_user_tokens_count(u) = Cardinality(tokens \ left)
              /\ (\A r \in tokens : r.user_id # u)
                     => revoke_all_user_tokens_count(u) = 0 /\ left = tokens)
    /\ [][\A u \in 1 .. MaxUsers :
              last'.op = "sign_out" /\ last'.code = "OK" /\ last'.user_id = u
                  => /\ tokens' = {r \in tokens : r.user_id # u}
                     /\ revoke_all_user_tokens_count(u)' = 0
                     /\ revoke_all_user_tokens(u)' = tokens']_vars
C25_Witness ==
    /\ JustAfter("sign_out", "OK")
    /\ \E old \in issued, new \in issued :
           /\ old.access_token.sub = last.user_id
           /\ new.access_token.sub = last.user_id
           /\ TokenByString(old.refresh_token) = NoToken
           /\ TokenByString(new.refresh_token) = NoToken
           /\ old.at + refresh_token_expire_days * MinutesPerDay < now
           /\ new.at + refresh_token_expire_days * MinutesPerDay >= now

\* C26: an OAuth2 sign-in of provider P whose identity email is that of a user
\* already linked to P succeeds and takes the accept-as-is branch, which writes
\* no field of the user, also when the name or the provider user id of the
\* identity is not the stored one.
C26_SameProviderAccepted ==
    JustLinked =>
        \A x \in ExchangeResults :
            x.ok /\ x.email = last.email
                => oauth2_branch(last.provider, [x EXCEPT !.provider_user_id = "pid-2"],
                                 UserByEmail(last.email)) = "accept"

\* C27: an OAuth2 sign-in of provider P whose identity email is that of no
\* user succeeds and adds exactly one user, with that email, the name of the
\* identity, a hash no submitted password verifies against, and the provider
\* and provider user id of the identity kept in the row.
C27_NewOAuthUserCreated ==
    [][\A P \in Providers, x \in ExchangeResults :
          (/\ x.ok /\ x.email \in Emails
           /\ UserByEmail(x.email) = NoUser
           /\ last'.op = "sign_in_oauth2" /\ last'.email = x.email
           /\ sign_in_oauth2(P, x)) =>
              /\ last'.code = "OK"
              /\ Cardinality(users' \ users) = 1
              /\ users \subseteq users'
              /\ \A u \in users' \ users :
                     /\ u.email = x.email
                     /\ u.name = x.name
                     /\ \A p \in Passwords : verify_password(p, u.hashed_password) = "False"
                     /\ HasColumn("oauth_provider") /\ HasColumn("oauth_provider_user_id")
                     /\ u.oauth_provider = P
                     /\ u.oauth_provider_user_id = x.provider_user_id]_vars

\* C30: when two OAuth2 sign-ins of different providers for the email of one
\* existing account are both between their lookup and their commit, each ends
\* either with success or with ACCOUNT_EXISTS, the one that commits on a row
\* the other has linked meanwhile with ACCOUNT_EXISTS, and a success leaves the
\* account linked to the provider that was handed the tokens.
C30_ConcurrentLinking ==
    [][\A w \in Workers, v \in Workers :
          (/\ req[w].pc = "oauth2_account" /\ req[v].pc = "oauth2_account"
           /\ req[w].email = req[v].email
           /\ req[w].provider # req[v].provider
           /\ req[w].user # NoUser
           /\ req'[w].pc = "idle") =>
              /\ last'.code \in {"OK", "ACCOUNT_EXISTS"}
              /\ req[w].user # UserByEmail(req[w].email) => last'.code = "ACCOUNT_EXISTS"
              /\ last'.code = "OK" =>
                     \A u \in users' : u.email = req[w].email
                                           => u.oauth_provider = req[w].provider]_vars

\* a refresh has just succeeded, every request has finished, and the token it
\* presented, not yet expired, is no longer stored: a sign_out of its owner
\* deleted it between the verify step and the insert step of the refresh
RefreshRacedSignOut ==
    /\ \A w \in Workers : IsIdle(w)
    /\ JustAfter("refresh", "OK")
    /\ TokenByString(last.token) = NoToken
    /\ \E pair \in issued :
           /\ pair.refresh_token = last.token
           /\ pair.at + refresh_token_expire_days * MinutesPerDay >= now

\* C31, as claimed: once a sign_out of user u and a concurrent refresh
\* presenting a token of u have both finished, the store holds no refresh
\* token of u obtained from a token issued before the sign-out.
C31_NoTokenSurvivesSignOut ==
    RefreshRacedSignOut => \A r \in tokens : r.user_id # last.user_id

\* C31, as the code behaves: the last write wins.  The token presented stays
\* deleted, and the token the refresh inserted after the delete is stored for
\* u and verifies, with a full lifetime ahead.
C31_LastWriteWins ==
    RefreshRacedSignOut =>
        LET r == TokenByString(last.issued) IN
        /\ r # NoToken
        /\ r.user_id = last.user_id
        /\ r.expires_at = now + refresh_token_expire_days * MinutesPerDay
        /\ Verifies(last.issued)
        /\ \A q \in tokens : q.user_id = last.user_id => q.token > last.token
C31_Witness ==
    /\ RefreshRacedSignOut
    /\ \E r \in tokens : r.user_id = last.user_id

StatelessErrors ==
    {"EMAIL_EXISTS", "INVALID_CREDENTIALS", "ACCOUNT_EXISTS", "OAUTH2_NO_EMAIL",
     "OAUTH2_ERROR", "UNAUTHORIZED"}

\* C33: an operation that returns EMAIL_EXISTS, INVALID_CREDENTIALS,
\* ACCOUNT_EXISTS, OAUTH2_NO_EMAIL, OAUTH2_ERROR or UNAUTHORIZED leaves the user
\* table and the refresh-token table exactly as they were; the one error
\* outcome that changes state is INVALID_TOKEN for an expired token, which
\* deletes that one record and nothing else.
C33_ErrorsLeaveTables ==
    [][/\ last'.code \in StatelessErrors
              => users' = users /\ tokens' = tokens /\ issued' = issued
       /\ last'.code \notin StatelessErrors \cup {"OK", "none", "INVALID_TOKEN"}
              => users' = users /\ tokens' = tokens /\ issued' = issued
       /\ last'.code = "INVALID_TOKEN"
              => /\ users' = users /\ issued' = issued
                 /\ LET r == TokenByString(last'.token) IN
                    IF r # NoToken /\ r.expires_at < now
                    THEN tokens' = tokens \ {r}
                    ELSE tokens' = tokens]_vars
C33_Witness ==
    /\ JustAfter("refresh", "INVALID_TOKEN")
    /\ last.token # 0
    /\ nextTok > 2
    /\ Cardinality(tokens) = nextTok - 2
    /\ \A r \in tokens : r.expires_at < now

\* user_id has no refresh token stored: the state a sign_out of his leaves
SignedOut(user_id) == \A r \in tokens : r.user_id # user_id

\* C34: sign_out does not invalidate access tokens.  An access token issued to
\* user u before a sign_out of u is still accepted after it, by get_session
\* and by a second sign_out, up to the expiry of the token itself, and is
\* refused after that: the verification consults no stored row.
C34_SignOutKeepsAccessTokens ==
    /\ [](\A p \in issued :
              SignedOut(p.access_token.sub) /\ UserById(p.access_token.sub) # NoUser
                  => IF now <= p.at + access_token_expire_minutes
                     THEN get_current_user(BearerOf(p.access_token)).id = p.access_token.sub
                     ELSE get_current_user(BearerOf(p.access_token)) = NoUser)
    /\ [][\A p \in issued :
              (/\ last.op = "sign_out" /\ last.code = "OK"
               /\ p.access_token.sub = last.user_id
               /\ now <= p.at + access_token_expire_minutes
               /\ \/ last'.op = "get_session" /\ get_session(BearerOf(p.access_token))
                  \/ last'.op = "sign_out" /\ sign_out(BearerOf(p.access_token)))
                  => last'.code = "OK" /\ last'.user_id = last.user_id]_vars
C34_Witness ==
    /\ JustAfter("sign_out", "OK")
    /\ SignedOut(last.user_id)
    /\ tokens # {}
    /\ now = access_token_expire_minutes
    /\ \E p \in issued :
           /\ p.at = 0
           /\ p.access_token.sub = last.user_id
           /\ get_current_user(BearerOf(p.access_token)).id = last.user_id

====
